---- MODULE Spec2Model ----
(***************************************************************************)
(* Model of packages/angular/cli/utilities/config.ts: the workspace        *)
(* configuration lookup of the CLI (path resolution, the scope cache,      *)
(* project selection, the settings cascade and the legacy migration).      *)
(*                                                                         *)
(* Strings whose characters matter (project roots, locations) come with    *)
(* their characters in the table Chars; a resolved absolute path is the    *)
(* sequence of its segments (POSIX path semantics).  JSON values are       *)
(* tagged records; file contents are token sequences that JSON.stringify   *)
(* produces and the JSON parser consumes.                                  *)
(***************************************************************************)
EXTENDS Integers, Sequences, FiniteSets, TLC

VARIABLES
    homedir,            \* os.homedir(): a directory, or NoHome when it is empty
    xdgEnv,             \* process.env['XDG_CONFIG_HOME']: a directory, or NoEnv
    cwd,                \* process.cwd(), an absolute path string
    files,              \* the filesystem: file path -> content (tokens) or NoFile
    cachedWorkspaces,   \* the module-level Map level -> workspace | null | undefined
    inflight,           \* getWorkspace calls suspended at `await readWorkspace`
    input,              \* arguments of the pure function under check (SpecPath)
    ret,                \* the last call that returned or threw, and its outcome
    hist                \* history: cache writes per level, overlapping resolutions

vars == <<homedir, xdgEnv, cwd, files, cachedWorkspaces, inflight, input, ret, hist>>

(***************************************************************************)
(* Bounds of the model.                                                    *)
(***************************************************************************)
MaxProjects == 3        \* projects per workspace given to getProjectByPath
MaxInflight == 2        \* getWorkspace calls suspended at the same time

(***************************************************************************)
(* Character strings.                                                      *)
(***************************************************************************)
Slash == "/"
Dot == "."

\* the characters of every string whose characters the code looks at
Chars ==
    [s \in {"", "a", "a/b", "./a", "a/.", "..", "/w", "/w/a", "/w/a/b",
            "/", "/x", "/w/a/..c", "/x/n", "/h"} |->
        CASE s = "" -> <<>>
          [] s = "a" -> <<"a">>
          [] s = "a/b" -> <<"a", "/", "b">>
          [] s = "./a" -> <<".", "/", "a">>
          [] s = "a/." -> <<"a", "/", ".">>
          [] s = ".." -> <<".", ".">>
          [] s = "/w" -> <<"/", "w">>
          [] s = "/w/a" -> <<"/", "w", "/", "a">>
          [] s = "/w/a/b" -> <<"/", "w", "/", "a", "/", "b">>
          [] s = "/" -> <<"/">>
          [] s = "/x" -> <<"/", "x">>
          [] s = "/w/a/..c" -> <<"/", "w", "/", "a", "/", ".", ".", "c">>
          [] s = "/x/n" -> <<"/", "x", "/", "n">>
          [] s = "/h" -> <<"/", "h">>]

\* String.prototype.length
StrLen(s) == Len(Chars[s])

\* String.prototype.startsWith('..')
StartsWithDotDot(s) == Len(s) >= 2 /\ s[1] = Dot /\ s[2] = Dot

\* path.isAbsolute (POSIX)
IsAbsolute(s) == Len(s) >= 1 /\ s[1] = Slash

\* s.split('/'): the segments between the separators, empty ones included
RECURSIVE SplitFrom(_, _, _)
SplitFrom(s, i, cur) ==
    IF i > Len(s) THEN <<cur>>
    ELSE IF s[i] = Slash THEN <<cur>> \o SplitFrom(s, i + 1, <<>>)
    ELSE SplitFrom(s, i + 1, Append(cur, s[i]))

SplitSlash(s) == SplitFrom(s, 1, <<>>)

\* the normalisation path.resolve applies to an absolute path: empty and '.'
\* segments are dropped, '..' removes the last kept segment (none above the root)
RECURSIVE NormalizeSegs(_, _)
NormalizeSegs(segs, acc) ==
    IF segs = <<>> THEN acc
    ELSE LET s == Head(segs) IN
         IF s = <<>> \/ s = <<Dot>> THEN NormalizeSegs(Tail(segs), acc)
         ELSE IF s = <<Dot, Dot>>
              THEN NormalizeSegs(Tail(segs),
                                 IF acc = <<>> THEN acc ELSE SubSeq(acc, 1, Len(acc) - 1))
              ELSE NormalizeSegs(Tail(segs), Append(acc, s))

\* path.resolve(basePath, p) for an absolute, normalised basePath (its segments):
\* an absolute p stands alone, any other p is appended to basePath
Resolve(basePath, p) ==
    IF IsAbsolute(Chars[p]) THEN NormalizeSegs(SplitSlash(Chars[p]), <<>>)
    ELSE NormalizeSegs(SplitSlash(Chars[p]), basePath)

\* the resolved form of an absolute path string
Dir(p) == Resolve(<<>>, p)

\* segs.join('/')
RECURSIVE JoinSlash(_)
JoinSlash(segs) ==
    IF segs = <<>> THEN <<>>
    ELSE IF Len(segs) = 1 THEN segs[1]
    ELSE segs[1] \o <<Slash>> \o JoinSlash(Tail(segs))

\* length of the common leading segments of two resolved paths
RECURSIVE CommonPrefix(_, _)
CommonPrefix(a, b) ==
    IF a = <<>> \/ b = <<>> THEN 0
    ELSE IF Head(a) = Head(b) THEN 1 + CommonPrefix(Tail(a), Tail(b))
    ELSE 0

\* path.relative(from, to) of two resolved paths: one '..' per segment of `from`
\* below the common ancestor, then the segments of `to` below it
Relative(from, to) ==
    LET k == CommonPrefix(from, to)
        ups == [i \in 1..(Len(from) - k) |-> <<Dot, Dot>>]
    IN JoinSlash(ups \o SubSeq(to, k + 1, Len(to)))

(***************************************************************************)
(* JSON values: tagged records.  An object is the sequence of its          *)
(* <<key, value>> members in insertion order.                              *)
(***************************************************************************)
Undefined == [t |-> "undefined"]
JNull == [t |-> "null"]
JBool(b) == [t |-> "boolean", v |-> b]
JNum(n) == [t |-> "number", v |-> n]
JStr(s) == [t |-> "string", v |-> s]
JArr == [t |-> "array"]
JObj(members) == [t |-> "object", v |-> members]

\* isJsonObject: a JSON object, and neither an array nor null nor undefined
isJsonObject(value) == value.t = "object"

\* typeof value === 'string' / 'boolean'
IsString(value) == value.t = "string"
IsBoolean(value) == value.t = "boolean"

\* the keys of an object, in order
Keys(obj) == [i \in 1..Len(obj.v) |-> obj.v[i][1]]

HasKey(obj, key) == \E i \in 1..Len(obj.v) : obj.v[i][1] = key

\* obj[key]: the member's value, undefined when there is none
Get(obj, key) ==
    IF isJsonObject(obj) /\ HasKey(obj, key)
    THEN obj.v[CHOOSE i \in 1..Len(obj.v) : obj.v[i][1] = key][2]
    ELSE Undefined

\* obj[key] = value: replaces the member in place, or appends it
Put(obj, key, value) ==
    IF HasKey(obj, key)
    THEN JObj([i \in 1..Len(obj.v) |->
                 IF obj.v[i][1] = key THEN <<key, value>> ELSE obj.v[i]])
    ELSE JObj(Append(obj.v, <<key, value>>))

\* the members of obj whose key is not in `drop`
RECURSIVE Without(_, _)
Without(members, drop) ==
    IF members = <<>> THEN <<>>
    ELSE IF Head(members)[1] \in drop THEN Without(Tail(members), drop)
    ELSE <<Head(members)>> \o Without(Tail(members), drop)

(***************************************************************************)
(* JSON text.  A file's data is a sequence of tokens; JSON.stringify writes *)
(* them and the parser reads them back.  "bom" is the UTF-8 byte order     *)
(* mark, "ws" white space, "comment" a comment, "garbage" anything that is *)
(* no JSON.                                                                *)
(***************************************************************************)
Tok(k) == [k |-> k]
TokV(k, v) == [k |-> k, v |-> v]

\* the members JSON.stringify writes: those whose value is not undefined
RECURSIVE DefinedMembers(_)
DefinedMembers(members) ==
    IF members = <<>> THEN <<>>
    ELSE IF Head(members)[2].t = "undefined" THEN DefinedMembers(Tail(members))
    ELSE <<Head(members)>> \o DefinedMembers(Tail(members))

\* JSON.stringify(value)
RECURSIVE Stringify(_), StringifyMembers(_)
Stringify(value) ==
    CASE value.t = "object" ->
            <<Tok("{")>> \o StringifyMembers(DefinedMembers(value.v)) \o <<Tok("}")>>
      [] value.t = "array" -> <<Tok("["), Tok("]")>>
      [] value.t = "null" -> <<Tok("null")>>
      [] OTHER -> <<TokV(value.t, value.v)>>

StringifyMembers(members) ==
    IF members = <<>> THEN <<>>
    ELSE <<TokV("string", Head(members)[1]), Tok(":")>> \o Stringify(Head(members)[2])
         \o (IF Len(members) > 1 THEN <<Tok(",")>> ELSE <<>>)
         \o StringifyMembers(Tail(members))

\* the indentation of JSON.stringify(value, null, 2): white space after an
\* opening brace or a comma and before a closing brace
RECURSIVE Indent(_)
Indent(tokens) ==
    IF tokens = <<>> THEN <<>>
    ELSE LET h == Head(tokens) IN
         (IF h.k \in {"{", ","} THEN <<h, Tok("ws")>>
          ELSE IF h.k = "}" THEN <<Tok("ws"), h>>
          ELSE <<h>>) \o Indent(Tail(tokens))

StringifyPretty(value) == Indent(Stringify(value))

ParseFail == [ok |-> FALSE, value |-> Undefined, rest |-> <<>>]
ParseOk(value, rest) == [ok |-> TRUE, value |-> value, rest |-> rest]

\* JsonParseMode.Loose skips white space and comments between tokens
RECURSIVE SkipBlanks(_)
SkipBlanks(tokens) ==
    IF tokens # <<>> /\ Head(tokens).k \in {"ws", "comment"}
    THEN SkipBlanks(Tail(tokens))
    ELSE tokens

\* the loose JSON grammar: values, and objects whose members may end in a comma
RECURSIVE ParseValue(_), ParseMembers(_, _)
ParseValue(tokens) ==
    LET toks == SkipBlanks(tokens) IN
    IF toks = <<>> THEN ParseFail
    ELSE LET h == Head(toks) IN
         CASE h.k = "{" -> ParseMembers(Tail(toks), JObj(<<>>))
           [] h.k = "[" ->
                LET r == SkipBlanks(Tail(toks)) IN
                IF r # <<>> /\ Head(r).k = "]" THEN ParseOk(JArr, Tail(r)) ELSE ParseFail
           [] h.k = "null" -> ParseOk(JNull, Tail(toks))
           [] h.k \in {"string", "number", "boolean"} ->
                ParseOk([t |-> h.k, v |-> h.v], Tail(toks))
           [] OTHER -> ParseFail

ParseMembers(tokens, acc) ==
    LET toks == SkipBlanks(tokens) IN
    IF toks = <<>> THEN ParseFail
    ELSE IF Head(toks).k = "}" THEN ParseOk(acc, Tail(toks))
    ELSE IF Head(toks).k # "string" THEN ParseFail
    ELSE LET key == Head(toks).v
             colon == SkipBlanks(Tail(toks))
         IN IF colon = <<>> \/ Head(colon).k # ":" THEN ParseFail
            ELSE LET member == ParseValue(Tail(colon))
                     after == SkipBlanks(member.rest)
                 IN IF ~member.ok \/ after = <<>> THEN ParseFail
                    ELSE IF Head(after).k = ","
                         THEN ParseMembers(Tail(after), Put(acc, key, member.value))
                    ELSE IF Head(after).k = "}"
                         THEN ParseOk(Put(acc, key, member.value), Tail(after))
                    ELSE ParseFail

\* parseJson(content, JsonParseMode.Loose) and parseJsonAst: the value, or a
\* thrown parse error (ok = FALSE)
parseJson(content) ==
    LET r == ParseValue(content) IN
    IF r.ok /\ SkipBlanks(r.rest) = <<>> THEN [ok |-> TRUE, value |-> r.value]
    ELSE [ok |-> FALSE, value |-> Undefined]

\* faulty variant: the first three bytes are dropped whether or not they are the mark
StripBomAlways(data) == IF data = <<>> THEN data ELSE Tail(data)

\* the bytes after a leading byte order mark; the mark is stripped only when
\* the data is longer than the mark (data.length > 3)
StripBom(data) ==
    IF Len(data) > 1 /\ data[1].k = "bom" THEN Tail(data) ELSE data

(***************************************************************************)
(* The in-memory workspace (class AngularWorkspace) and project selection. *)
(***************************************************************************)
\* new AngularWorkspace(definition, filePath); `id` is the object's identity
AngularWorkspace(definition, filePath, id) ==
    [t |-> "workspace", id |-> id, filePath |-> filePath,
     basePath |-> filePath.dir,
     extensions |-> definition.extensions, projects |-> definition.projects]

\* workspace.projects.get(name): the project definition, or undefined
ProjectsGet(workspace, name) ==
    IF \E i \in 1..Len(workspace.projects) : workspace.projects[i].name = name
    THEN LET i == CHOOSE j \in 1..Len(workspace.projects) :
                      workspace.projects[j].name = name
         IN [t |-> "project"] @@ workspace.projects[i]
    ELSE Undefined

\* project?.extensions[key]
ProjectExtension(project, key) ==
    IF project.t = "project" THEN Get(project.extensions, key) ELSE Undefined

\* the isInside closure of getProjectByPath
isInside(workspace, base, potential) ==
    LET absoluteBase == Resolve(workspace.basePath, base)
        absolutePotential == Resolve(workspace.basePath, potential)
        relativePotential == Relative(absoluteBase, absolutePotential)
    IN ~StartsWithDotDot(relativePotential) /\ ~IsAbsolute(relativePotential)

\* tuples.filter((tuple) => isInside(tuple[0], location))
RECURSIVE FilterInside(_, _, _)
FilterInside(workspace, tuples, location) ==
    IF tuples = <<>> THEN <<>>
    ELSE IF isInside(workspace, Head(tuples)[1], location)
         THEN <<Head(tuples)>> \o FilterInside(workspace, Tail(tuples), location)
         ELSE FilterInside(workspace, Tail(tuples), location)

\* faulty variant: the tuples are left in declaration order (the sort is dropped)
InsertByDepthUnsorted(sorted, tuple) == Append(sorted, tuple)

\* faulty variant: an unstable sort, a tuple goes before the tuples of equal root length
RECURSIVE InsertByDepthUnstable(_, _)
InsertByDepthUnstable(sorted, tuple) ==
    IF sorted = <<>> THEN <<tuple>>
    ELSE IF StrLen(Head(sorted)[1]) > StrLen(tuple[1])
         THEN <<Head(sorted)>> \o InsertByDepthUnstable(Tail(sorted), tuple)
         ELSE <<tuple>> \o sorted

\* one step of the stable sort by descending root length: the tuple goes
\* after every tuple whose root is at least as long
RECURSIVE InsertByDepth(_, _)
InsertByDepth(sorted, tuple) ==
    IF sorted = <<>> THEN <<tuple>>
    ELSE IF StrLen(Head(sorted)[1]) >= StrLen(tuple[1])
         THEN <<Head(sorted)>> \o InsertByDepth(Tail(sorted), tuple)
         ELSE <<tuple>> \o sorted

\* tuples.sort((a, b) => b[0].length - a[0].length); Array.prototype.sort is stable
RECURSIVE SortLoop(_, _)
SortLoop(tuples, sorted) ==
    IF tuples = <<>> THEN sorted
    ELSE SortLoop(Tail(tuples), InsertByDepth(sorted, Head(tuples)))

SortByDepth(tuples) == SortLoop(tuples, <<>>)

\* the [root, name] tuples of the projects whose root contains the location,
\* deepest first
MatchingProjects(workspace, location) ==
    LET tuples == [i \in 1..Len(workspace.projects) |->
                      <<workspace.projects[i].root, workspace.projects[i].name>>]
    IN SortByDepth(FilterInside(workspace, tuples, location))

\* faulty variant: the ambiguity check finds nothing
sameRootsNone(projects) == {}

\* the tuples whose root an earlier tuple already has
sameRoots(projects) ==
    {j \in 1..Len(projects) : \E i \in 1..(j - 1) : projects[i][1] = projects[j][1]}

getProjectByPath(workspace, location) ==
    LET projects == MatchingProjects(workspace, location) IN
    IF Len(projects) = 0 THEN JNull
    ELSE IF Len(projects) > 1 /\ sameRoots(projects) # {} THEN JNull
    ELSE JStr(projects[1][2])

\* `value && typeof value === 'string'`
IsNonEmptyString(value) == IsString(value) /\ value.v # ""

\* `if (x)` for x: string | null
Truthy(value) == value.t \notin {"null", "undefined"} /\ ~(IsString(value) /\ value.v = "")

getProjectByCwd(workspace) ==
    IF Len(workspace.projects) = 1 THEN JStr(workspace.projects[1].name)
    ELSE LET project == getProjectByPath(workspace, cwd)
             defaultProject == Get(workspace.extensions, "defaultProject")
         IN IF Truthy(project) THEN project
            ELSE IF IsNonEmptyString(defaultProject) THEN defaultProject
            ELSE JNull

(***************************************************************************)
(* The filesystem and the path resolvers.                                  *)
(***************************************************************************)
Levels == {"local", "global"}

NoInput == [t |-> "none"]
NoRet == [op |-> "none"]
NoPath == [t |-> "null"]

\* a file path: its directory (resolved) and its name
FilePath(dir, name) == [dir |-> dir, name |-> name]

NoFile == [exists |-> FALSE, data |-> <<>>]
File(data) == [exists |-> TRUE, data |-> data]

configNames == <<"angular.json", ".angular.json">>
globalFileName == ".angular-config.json"
legacyFileName == ".angular-cli.json"

\* __dirname: where the CLI is installed
InstallDir == "/x/n"

WorkspaceDir == Dir("/w")
LocalPath == FilePath(WorkspaceDir, "angular.json")
LocalDotPath == FilePath(WorkspaceDir, ".angular.json")

\* path.join(dir, '.config', 'angular')
DotConfigAngular(dir) ==
    dir \o << <<".", "c", "o", "n", "f", "i", "g">>, <<"a", "n", "g", "u", "l", "a", "r">> >>

\* xdgConfigHome(home, globalFileName)
xdgConfigHome(home) ==
    FilePath(IF xdgEnv # "" THEN Dir(xdgEnv) ELSE DotConfigAngular(Dir(home)),
             globalFileName)

\* path.join(home, globalFileName) and path.join(home, '.angular-cli.json')
HomeGlobalPath(home) == FilePath(Dir(home), globalFileName)
LegacyPath(home) == FilePath(Dir(home), legacyFileName)

\* every path the model gives a file
AllPaths ==
    {LocalPath, LocalDotPath, HomeGlobalPath("/h"), LegacyPath("/h"),
     FilePath(DotConfigAngular(Dir("/h")), globalFileName),
     FilePath(Dir("/x"), globalFileName)}

existsSync(path) == path \in DOMAIN files /\ files[path].exists

\* the first of `names` that exists in `dir`, or NoPath
FirstIn(names, dir) ==
    LET hits == {i \in 1..Len(names) : existsSync(FilePath(dir, names[i]))} IN
    IF hits = {} THEN NoPath
    ELSE FilePath(dir, names[CHOOSE i \in hits : \A j \in hits : i <= j])

\* findUp(names, from): the nearest directory from `from` upwards, the root
\* excluded, that holds one of the names
RECURSIVE FindUpFrom(_, _)
FindUpFrom(names, dir) ==
    IF dir = <<>> THEN NoPath
    ELSE IF FirstIn(names, dir) # NoPath THEN FirstIn(names, dir)
    ELSE FindUpFrom(names, SubSeq(dir, 1, Len(dir) - 1))

findUp(names, from) == FindUpFrom(names, Dir(from))

\* projectFilePath(): getWorkspace and getWorkspaceRaw pass no projectPath
projectFilePath ==
    IF findUp(configNames, cwd) # NoPath THEN findUp(configNames, cwd)
    ELSE findUp(configNames, InstallDir)

globalFilePath ==
    IF homedir = "" THEN NoPath
    ELSE IF existsSync(xdgConfigHome(homedir)) THEN xdgConfigHome(homedir)
    ELSE IF existsSync(HomeGlobalPath(homedir)) THEN HomeGlobalPath(homedir)
    ELSE NoPath

\* level === 'local' ? projectFilePath() : globalFilePath()
ConfigPath(level) == IF level = "local" THEN projectFilePath ELSE globalFilePath

InitHist ==
    [writes |-> [l \in Levels |-> 0],
     overlapped |-> [l \in Levels |-> FALSE],
     results |-> [l \in Levels |-> {}]]

(***************************************************************************)
(* getWorkspace and the scope cache.                                       *)
(***************************************************************************)
\* the project definitions of the "projects" member, in declaration order
ProjectDefinitions(projects) ==
    IF ~isJsonObject(projects) THEN <<>>
    ELSE [i \in 1..Len(projects.v) |->
            [name |-> projects.v[i][1],
             root |-> Get(projects.v[i][2], "root").v,
             extensions |-> JObj(Without(projects.v[i][2].v, {"root"}))]]

\* workspaces.readWorkspace(configPath, host, WorkspaceFormat.JSON): the
\* definition read from the file's data, or a thrown error (ok = FALSE)
readWorkspace(data) ==
    LET parsed == parseJson(StripBom(data)) IN
    IF ~parsed.ok \/ ~isJsonObject(parsed.value)
    THEN [ok |-> FALSE, workspace |-> Undefined]
    ELSE [ok |-> TRUE,
          workspace |->
              [extensions |-> JObj(Without(parsed.value.v, {"version", "projects"})),
               projects |-> ProjectDefinitions(Get(parsed.value, "projects"))]]

\* faulty variant: `if (cached)`, a cached null is not taken as an answer
CacheHitTruthy(level) == cachedWorkspaces[level].t = "workspace"

\* `cached !== undefined`
CacheHit(level) == cachedWorkspaces[level] # Undefined

\* cachedWorkspaces.set(level, value), with the history of the writes
CacheSet(level, value) ==
    /\ cachedWorkspaces' = [cachedWorkspaces EXCEPT ![level] = value]
    /\ hist' = [hist EXCEPT !.writes[level] = @ + 1, !.results[level] = @ \cup {value}]

\* new AngularWorkspace(result.workspace, configPath): the value a resolution
\* of `level` caches
Loaded(level, configPath, definition) ==
    AngularWorkspace(definition, configPath, hist.writes[level] + 1)

GetWorkspaceRet(level, result, read) ==
    [op |-> "getWorkspace", level |-> level, threw |-> FALSE, result |-> result,
     read |-> read]

GetWorkspaceThrow(level) ==
    [op |-> "getWorkspace", level |-> level, threw |-> TRUE, result |-> Undefined,
     read |-> TRUE]

\* getWorkspace(level) answered from the cache
GetWorkspaceCached(level) ==
    /\ CacheHit(level)
    /\ ret' = GetWorkspaceRet(level, cachedWorkspaces[level], FALSE)
    /\ hist' = [hist EXCEPT !.results[level] = @ \cup {cachedWorkspaces[level]}]
    /\ UNCHANGED <<homedir, xdgEnv, cwd, files, cachedWorkspaces, inflight, input>>

\* getWorkspace(level) when no config file is found: null is cached
GetWorkspaceNotFound(level) ==
    /\ ~CacheHit(level)
    /\ ConfigPath(level) = NoPath
    /\ cachedWorkspaces' = [cachedWorkspaces EXCEPT ![level] = JNull]
    /\ hist' = [hist EXCEPT !.writes[level] = @ + 1, !.results[level] = @ \cup {JNull},
                            !.overlapped[level] =
                                @ \/ \E i \in 1..Len(inflight) : inflight[i].level = level]
    /\ ret' = GetWorkspaceRet(level, JNull, TRUE)
    /\ UNCHANGED <<homedir, xdgEnv, cwd, files, inflight, input>>

\* getWorkspace(level) up to `await workspaces.readWorkspace(...)`: the file is
\* read and the call is suspended
GetWorkspaceRead(level) ==
    /\ ~CacheHit(level)
    /\ ConfigPath(level) # NoPath
    /\ Len(inflight) < MaxInflight
    /\ inflight' = Append(inflight, [level |-> level, configPath |-> ConfigPath(level),
                                     data |-> files[ConfigPath(level)].data])
    /\ hist' = [hist EXCEPT !.overlapped[level] =
                    @ \/ \E i \in 1..Len(inflight) : inflight[i].level = level]
    /\ ret' = [op |-> "getWorkspace", level |-> level, suspended |-> TRUE]
    /\ UNCHANGED <<homedir, xdgEnv, cwd, files, cachedWorkspaces, input>>

Remove(seq, i) == SubSeq(seq, 1, i - 1) \o SubSeq(seq, i + 1, Len(seq))

\* a suspended getWorkspace call resumes: the workspace is cached and
\* returned, or the read error is rethrown
GetWorkspaceResume(i) ==
    LET call == inflight[i]
        result == readWorkspace(call.data)
        workspace == Loaded(call.level, call.configPath, result.workspace)
    IN
    /\ inflight' = Remove(inflight, i)
    /\ IF result.ok
       THEN /\ CacheSet(call.level, workspace)
            /\ ret' = GetWorkspaceRet(call.level, workspace, TRUE)
       ELSE /\ ret' = GetWorkspaceThrow(call.level)
            /\ UNCHANGED <<cachedWorkspaces, hist>>
    /\ UNCHANGED <<homedir, xdgEnv, cwd, files, input>>

\* faulty variant: the cache is not consulted, every call resolves from the disk
WorkspaceForFresh(level) ==
    LET configPath == ConfigPath(level)
        result == readWorkspace(files[configPath].data)
    IN IF configPath = NoPath THEN [ok |-> TRUE, hit |-> FALSE, value |-> JNull]
       ELSE IF result.ok
       THEN [ok |-> TRUE, hit |-> FALSE,
             value |-> AngularWorkspace(result.workspace, configPath, 1)]
       ELSE [ok |-> FALSE, hit |-> FALSE, value |-> Undefined]

\* the outcome of `await getWorkspace(level)` in the current state: the value
\* returned (ok) or a thrown load error, and whether the cache answered (hit)
WorkspaceFor(level) ==
    LET configPath == ConfigPath(level)
        result == readWorkspace(files[configPath].data)
    IN IF CacheHit(level)
       THEN [ok |-> TRUE, hit |-> TRUE, value |-> cachedWorkspaces[level]]
       ELSE IF configPath = NoPath THEN [ok |-> TRUE, hit |-> FALSE, value |-> JNull]
       ELSE IF result.ok
       THEN [ok |-> TRUE, hit |-> FALSE,
             value |-> Loaded(level, configPath, result.workspace)]
       ELSE [ok |-> FALSE, hit |-> FALSE, value |-> Undefined]

\* the cache and its history after the getWorkspace calls with these outcomes
\* (a function from the levels awaited to their outcomes)
Awaited(outcomes) ==
    LET wrote == {l \in DOMAIN outcomes : outcomes[l].ok /\ ~outcomes[l].hit}
        back == {l \in DOMAIN outcomes : outcomes[l].ok}
    IN /\ cachedWorkspaces' =
              [l \in Levels |-> IF l \in wrote THEN outcomes[l].value
                                ELSE cachedWorkspaces[l]]
       /\ hist' = [hist EXCEPT
              !.writes = [l \in Levels |-> IF l \in wrote THEN @[l] + 1 ELSE @[l]],
              !.results = [l \in Levels |->
                              IF l \in back THEN @[l] \cup {outcomes[l].value}
                              ELSE @[l]]]

\* `await getWorkspace(level)` as one step: the call runs to completion before
\* the caller continues
GetWorkspaceAwaited(level) ==
    LET outcome == WorkspaceFor(level) IN
    /\ inflight = <<>>
    /\ Awaited([l \in {level} |-> outcome])
    /\ ret' = IF outcome.ok THEN GetWorkspaceRet(level, outcome.value, ~outcome.hit)
              ELSE GetWorkspaceThrow(level)
    /\ UNCHANGED <<homedir, xdgEnv, cwd, files, inflight, input>>

\* faulty variant: a || b, which also replaces false and the empty string
FalsyOr(a, b) ==
    IF a.t \in {"undefined", "null"} \/ a = [t |-> "boolean", v |-> FALSE]
       \/ a = [t |-> "string", v |-> ""]
    THEN b ELSE a

\* a ?? b
Nullish(a, b) == IF a.t \in {"undefined", "null"} THEN b ELSE a

\* workspace.projects.get(project)?.extensions[key] for the project
\* getProjectByCwd selects (undefined when it selects none)
CwdProjectExtension(workspace, project, key) ==
    IF Truthy(project) THEN ProjectExtension(ProjectsGet(workspace, project.v), key)
    ELSE Undefined

(***************************************************************************)
(* The global settings file and the legacy configuration.                  *)
(***************************************************************************)
DefaultGlobalSettings == JObj(<< <<"version", JNum(1)>> >>)

Write(path, data) == files' = [files EXCEPT ![path] = File(data)]

createGlobalSettings ==
    /\ IF homedir = ""
       THEN /\ ret' = [op |-> "createGlobalSettings", threw |-> TRUE, result |-> NoPath]
            /\ UNCHANGED files
       ELSE /\ Write(HomeGlobalPath(homedir), Stringify(DefaultGlobalSettings))
            /\ ret' = [op |-> "createGlobalSettings", threw |-> FALSE,
                       result |-> HomeGlobalPath(homedir)]
    /\ UNCHANGED <<homedir, xdgEnv, cwd, cachedWorkspaces, inflight, input, hist>>

\* the outcome of getWorkspaceRaw; `after` names the call that came before it
RawRet(level, threw, ast, path) ==
    [op |-> "getWorkspaceRaw", level |-> level, threw |-> threw, ast |-> ast,
     path |-> path, after |-> ret.op]

\* the tail of getWorkspaceRaw: read the file, strip the mark, parse, check
RawRead(level, configPath, data) ==
    LET ast == parseJson(StripBom(data)) IN
    IF ast.ok /\ isJsonObject(ast.value) THEN RawRet(level, FALSE, ast.value, configPath)
    ELSE RawRet(level, TRUE, Undefined, NoPath)

getWorkspaceRaw(level) ==
    /\ IF ConfigPath(level) # NoPath
       THEN /\ ret' = RawRead(level, ConfigPath(level), files[ConfigPath(level)].data)
            /\ UNCHANGED files
       ELSE IF level = "local"
       THEN /\ ret' = RawRet(level, FALSE, JNull, NoPath)
            /\ UNCHANGED files
       ELSE IF homedir = ""
       THEN /\ ret' = RawRet(level, TRUE, Undefined, NoPath)
            /\ UNCHANGED files
       ELSE /\ Write(HomeGlobalPath(homedir), Stringify(DefaultGlobalSettings))
            /\ ret' = RawRead(level, HomeGlobalPath(homedir),
                              files'[HomeGlobalPath(homedir)].data)
    /\ UNCHANGED <<homedir, xdgEnv, cwd, cachedWorkspaces, inflight, input, hist>>

\* `legacy.packageManager && typeof legacy.packageManager == 'string' &&
\*  legacy.packageManager !== 'default'`
LegacyPackageManager(legacy) ==
    IF IsNonEmptyString(Get(legacy, "packageManager"))
       /\ Get(legacy, "packageManager").v # "default"
    THEN Get(legacy, "packageManager")
    ELSE Undefined

\* the `cli` object migrateLegacyGlobalConfig builds from the legacy object
MigratedCli(legacy) ==
    LET collection == Get(Get(Get(legacy, "defaults"), "schematics"), "collection")
        versionMismatch == Get(Get(legacy, "warnings"), "versionMismatch")
        warnings == IF IsBoolean(versionMismatch)
                    THEN JObj(<< <<"versionMismatch", versionMismatch>> >>)
                    ELSE Undefined
        members == << <<"packageManager", LegacyPackageManager(legacy)>>,
                      <<"defaultCollection",
                        IF IsString(collection) THEN collection ELSE Undefined>>,
                      <<"warnings", warnings>> >>
    IN JObj(DefinedMembers(members))

MigrateRet(threw, result, wrote) ==
    [op |-> "migrateLegacyGlobalConfig", threw |-> threw, result |-> result,
     wrote |-> wrote]

migrateLegacyGlobalConfig ==
    /\ IF homedir = "" \/ ~existsSync(LegacyPath(homedir))
       THEN /\ ret' = MigrateRet(FALSE, FALSE, FALSE)
            /\ UNCHANGED files
       ELSE LET legacy == parseJson(files[LegacyPath(homedir)].data) IN
            IF ~legacy.ok
            THEN /\ ret' = MigrateRet(TRUE, FALSE, FALSE)
                 /\ UNCHANGED files
            ELSE IF ~isJsonObject(legacy.value) \/ MigratedCli(legacy.value).v = <<>>
            THEN /\ ret' = MigrateRet(FALSE, FALSE, FALSE)
                 /\ UNCHANGED files
            ELSE /\ Write(HomeGlobalPath(homedir),
                          StringifyPretty(JObj(<< <<"version", JNum(1)>>,
                                                  <<"cli", MigratedCli(legacy.value)>> >>)))
                 /\ ret' = MigrateRet(FALSE, TRUE, TRUE)
    /\ UNCHANGED <<homedir, xdgEnv, cwd, cachedWorkspaces, inflight, input, hist>>

\* getLegacyPackageManager(): the value returned (ok) or a thrown parse error
getLegacyPackageManager ==
    IF homedir = "" \/ ~existsSync(LegacyPath(homedir))
    THEN [ok |-> TRUE, value |-> JNull]
    ELSE LET legacy == parseJson(files[LegacyPath(homedir)].data) IN
         IF ~legacy.ok THEN [ok |-> FALSE, value |-> Undefined]
         ELSE IF ~isJsonObject(legacy.value) THEN [ok |-> TRUE, value |-> JNull]
         ELSE [ok |-> TRUE, value |-> Nullish(LegacyPackageManager(legacy.value), JNull)]

(***************************************************************************)
(* The settings cascade.                                                   *)
(***************************************************************************)
\* faulty variant: any string counts, the empty one included (`value &&` is dropped)
getPackageManagerAnyString(source) ==
    IF isJsonObject(source) /\ IsString(Get(source, "packageManager"))
    THEN Get(source, "packageManager")
    ELSE Undefined

\* the getPackageManager closure
getPackageManager(source) ==
    IF isJsonObject(source) /\ IsNonEmptyString(Get(source, "packageManager"))
    THEN Get(source, "packageManager")
    ELSE Undefined

\* the getWarning closure
getWarning(source, warning) ==
    IF isJsonObject(source) /\ IsBoolean(Get(Get(source, "warnings"), warning))
    THEN Get(Get(source, "warnings"), warning)
    ELSE Undefined

\* globalOptions?.extensions[key]
GlobalExtension(globalOptions, key) ==
    IF globalOptions.t = "workspace" THEN Get(globalOptions.extensions, key) ELSE Undefined

\* the value the project scope gives, else the one the workspace scope gives
\* (undefined when there is no local workspace or neither gives one)
LocalPackageManager(workspace) ==
    IF workspace.t # "workspace" THEN Undefined
    ELSE Nullish(getPackageManager(
                     CwdProjectExtension(workspace, getProjectByCwd(workspace), "cli")),
                 getPackageManager(Get(workspace.extensions, "cli")))

LocalWarning(workspace, warning) ==
    IF workspace.t # "workspace" THEN Undefined
    ELSE Nullish(getWarning(
                     CwdProjectExtension(workspace, getProjectByCwd(workspace), "cli"),
                     warning),
                 getWarning(Get(workspace.extensions, "cli"), warning))

SettingRet(op, threw, result) == [op |-> op, threw |-> threw, result |-> result]

getConfiguredPackageManager ==
    LET local == WorkspaceFor("local")
        global == WorkspaceFor("global")
        result == LocalPackageManager(local.value)
        op == "getConfiguredPackageManager"
    IN
    /\ inflight = <<>>
    /\ IF ~local.ok
       THEN /\ ret' = SettingRet(op, TRUE, Undefined)
            /\ UNCHANGED <<cachedWorkspaces, hist>>
       ELSE IF result # Undefined
       THEN /\ ret' = SettingRet(op, FALSE, result)
            /\ Awaited([l \in {"local"} |-> local])
       ELSE /\ Awaited([l \in Levels |-> IF l = "local" THEN local ELSE global])
            /\ ret' =
                 IF ~global.ok THEN SettingRet(op, TRUE, Undefined)
                 ELSE IF local.value = JNull /\ global.value = JNull
                 THEN (IF getLegacyPackageManager.ok
                       THEN SettingRet(op, FALSE, getLegacyPackageManager.value)
                       ELSE SettingRet(op, TRUE, Undefined))
                 ELSE SettingRet(op, FALSE,
                         Nullish(getPackageManager(GlobalExtension(global.value, "cli")),
                                 JNull))
    /\ UNCHANGED <<homedir, xdgEnv, cwd, files, inflight, input>>

isWarningEnabled(warning) ==
    LET local == WorkspaceFor("local")
        global == WorkspaceFor("global")
        result == LocalWarning(local.value, warning)
        op == "isWarningEnabled"
    IN
    /\ inflight = <<>>
    /\ IF ~local.ok
       THEN /\ ret' = SettingRet(op, TRUE, Undefined)
            /\ UNCHANGED <<cachedWorkspaces, hist>>
       ELSE IF result # Undefined
       THEN /\ ret' = SettingRet(op, FALSE, result)
            /\ Awaited([l \in {"local"} |-> local])
       ELSE /\ Awaited([l \in Levels |-> IF l = "local" THEN local ELSE global])
            /\ ret' =
                 IF ~global.ok THEN SettingRet(op, TRUE, Undefined)
                 ELSE SettingRet(op, FALSE,
                         Nullish(getWarning(GlobalExtension(global.value, "cli"), warning),
                                 JBool(TRUE)))
    /\ UNCHANGED <<homedir, xdgEnv, cwd, files, inflight, input>>

\* the keys Object.assign gives the characters of a string
IndexKeys == <<"0", "1", "2", "3", "4", "5", "6", "7">>

\* the own enumerable properties Object.assign copies from a source
OwnProperties(source) ==
    CASE source.t = "object" -> source.v
      [] source.t = "string" ->
            [i \in 1..StrLen(source.v) |-> <<IndexKeys[i], JStr(Chars[source.v][i])>>]
      [] OTHER -> <<>>

\* Object.assign(target, source)
RECURSIVE AssignMembers(_, _)
AssignMembers(target, members) ==
    IF members = <<>> THEN target
    ELSE AssignMembers(Put(target, Head(members)[1], Head(members)[2]), Tail(members))

Assign(target, source) == AssignMembers(target, OwnProperties(source))

\* the mergeOptions closure: the qualified entry, then the nested one
mergeOptions(result, source, collection, schematic) ==
    IF ~isJsonObject(source) THEN result
    ELSE LET qualified == Assign(result, Get(source, collection \o ":" \o schematic))
             collectionOptions == Get(source, collection)
         IN IF isJsonObject(collectionOptions)
            THEN Assign(qualified, Get(collectionOptions, schematic))
            ELSE qualified

\* faulty variant: the scopes are merged project first, global last
SchematicSourcesNarrowFirst(globalOptions, workspace, project) ==
    (IF workspace.t # "workspace" THEN <<>>
     ELSE (LET selected == IF Truthy(project) THEN project
                           ELSE getProjectByCwd(workspace)
           IN IF Truthy(selected)
              THEN <<CwdProjectExtension(workspace, selected, "schematics")>>
              ELSE <<>>)
          \o <<Get(workspace.extensions, "schematics")>>)
    \o <<GlobalExtension(globalOptions, "schematics")>>

\* the `schematics` extensions getSchematicDefaults merges, in merge order
SchematicSources(globalOptions, workspace, project) ==
    <<GlobalExtension(globalOptions, "schematics")>>
    \o (IF workspace.t # "workspace" THEN <<>>
        ELSE <<Get(workspace.extensions, "schematics")>>
             \o (LET selected == IF Truthy(project) THEN project
                                 ELSE getProjectByCwd(workspace)
                 IN IF Truthy(selected)
                    THEN <<CwdProjectExtension(workspace, selected, "schematics")>>
                    ELSE <<>>))

RECURSIVE MergeAll(_, _, _, _)
MergeAll(result, sources, collection, schematic) ==
    IF sources = <<>> THEN result
    ELSE MergeAll(mergeOptions(result, Head(sources), collection, schematic),
                  Tail(sources), collection, schematic)

getSchematicDefaults(collection, schematic, project) ==
    LET local == WorkspaceFor("local")
        global == WorkspaceFor("global")
        op == "getSchematicDefaults"
    IN
    /\ inflight = <<>>
    /\ IF ~global.ok
       THEN /\ ret' = [op |-> op, threw |-> TRUE, result |-> Undefined,
                       project |-> project]
            /\ UNCHANGED <<cachedWorkspaces, hist>>
       ELSE /\ Awaited([l \in Levels |-> IF l = "local" THEN local ELSE global])
            /\ ret' =
                 IF ~local.ok
                 THEN [op |-> op, threw |-> TRUE, result |-> Undefined, project |-> project]
                 ELSE [op |-> op, threw |-> FALSE, project |-> project,
                       result |-> MergeAll(JObj(<<>>),
                                           SchematicSources(global.value, local.value,
                                                            project),
                                           collection, schematic)]
    /\ UNCHANGED <<homedir, xdgEnv, cwd, files, inflight, input>>

(***************************************************************************)
(* SpecPath: getProjectByPath and getProjectByCwd applied to every         *)
(* workspace of at most MaxProjects projects and every location.           *)
(***************************************************************************)
RootPool == {"", "a", "a/b", "./a", "a/.", "..", "/w"}
LocationPool == {"/w", "/w/a", "/w/a/b", "/", "/x", "/w/a/..c", "a/b"}
ProjectNames == <<"p1", "p2", "p3", "p4", "p5">>

\* the projects declared with the given roots, in declaration order
ProjectsOf(roots) ==
    [i \in 1..Len(roots) |->
        [name |-> ProjectNames[i], root |-> roots[i], extensions |-> JObj(<<>>)]]

RootLists == UNION {[1..n -> RootPool] : n \in 0..MaxProjects}

PathWorkspaces ==
    {AngularWorkspace([extensions |-> ext, projects |-> ProjectsOf(roots)], LocalPath, 1) :
        roots \in RootLists, ext \in {JObj(<<>>)}}
    \cup {AngularWorkspace([extensions |-> JObj(<< <<"defaultProject", JStr("p2")>> >>),
                            projects |-> ProjectsOf(roots)], LocalPath, 1) :
        roots \in [1..2 -> RootPool]}

PathInit ==
    /\ homedir = "/h"
    /\ xdgEnv = ""
    /\ files = [p \in AllPaths |-> NoFile]
    /\ cachedWorkspaces = [l \in Levels |-> Undefined]
    /\ inflight = <<>>
    /\ input \in [workspace : PathWorkspaces, location : LocationPool]
    /\ cwd = IF IsAbsolute(Chars[input.location]) THEN input.location ELSE "/w"
    /\ ret = NoRet
    /\ hist = InitHist

CallGetProjectByPath ==
    /\ ret' = [op |-> "getProjectByPath",
               result |-> getProjectByPath(input.workspace, input.location)]
    /\ UNCHANGED <<homedir, xdgEnv, cwd, files, cachedWorkspaces, inflight, input, hist>>

CallGetProjectByCwd ==
    /\ ret' = [op |-> "getProjectByCwd", result |-> getProjectByCwd(input.workspace)]
    /\ UNCHANGED <<homedir, xdgEnv, cwd, files, cachedWorkspaces, inflight, input, hist>>

PathNext == CallGetProjectByPath \/ CallGetProjectByCwd

SpecPath == PathInit /\ [][PathNext]_vars

(***************************************************************************)
(* SpecSettings: the three settings lookups over local, global and legacy  *)
(* files whose cli and schematics members range over the pools below.      *)
(***************************************************************************)
Member(key, value) == JObj(<< <<key, value>> >>)

\* a `cli` member about the package manager: absent, not an object, naming
\* `name`, the empty string, or not a string
PackageManagerClis(name) ==
    {Undefined, JStr("cli"), Member("packageManager", JStr(name)),
     Member("packageManager", JStr("")), Member("packageManager", JNum(5))}

\* a `cli` member about the warning `w`: absent, not an object, a boolean, not
\* a boolean, or warnings that are no object
WarningClis ==
    {Undefined, JStr("cli"), Member("warnings", Member("w", JBool(TRUE))),
     Member("warnings", Member("w", JBool(FALSE))),
     Member("warnings", Member("w", JStr("no"))), Member("warnings", JNum(0))}

Options(x, y) == JObj(<< <<"x", x>>, <<"y", y>> >>)

\* a `schematics` member for the schematic c:s: absent, not an object, the
\* qualified entry, the nested entry, both, or entries that are no objects
SchematicsMembers(n) ==
    {Undefined, JNum(0),
     Member("c:s", Options(JNum(n), Undefined)),
     Member("c:s", Options(Undefined, JNum(n))),
     Member("c", Member("s", Options(JNum(n + 10), JNum(n + 10)))),
     JObj(<< <<"c:s", Options(JNum(n), JNum(n))>>,
             <<"c", Member("s", Options(JNum(n + 10), Undefined))>> >>),
     JObj(<< <<"c:s", JStr("a")>>, <<"c", JNum(0)>> >>)}

\* the text of a local angular.json: two projects, p1 under a and p2 under a/b
LocalDocument(cli, schematics, defaultProject, projectCli, projectSchematics) ==
    Stringify(JObj(<<
        <<"version", JNum(1)>>,
        <<"cli", cli>>,
        <<"schematics", schematics>>,
        <<"defaultProject", defaultProject>>,
        <<"projects", JObj(<<
            <<"p1", JObj(<< <<"root", JStr("a")>>, <<"cli", projectCli>>,
                            <<"schematics", projectSchematics>> >>)>>,
            <<"p2", JObj(<< <<"root", JStr("a/b")>> >>)>> >>)>> >>))

\* the text of a global .angular-config.json
GlobalDocument(cli, schematics) ==
    Stringify(JObj(<< <<"version", JNum(1)>>, <<"cli", cli>>,
                      <<"schematics", schematics>> >>))

Garbage == <<Tok("{"), Tok("garbage")>>

\* where the process runs, and the workspace's defaultProject
Places ==
    {<<"/w/a", Undefined>>, <<"/w/a/b", Undefined>>, <<"/w", Undefined>>,
     <<"/w", JStr("p1")>>, <<"/x", Undefined>>}

LegacyDocuments ==
    {Stringify(Member("packageManager", JStr("cnpm"))),
     Stringify(Member("packageManager", JStr("default"))),
     Stringify(JArr), Garbage}

\* the files of the package-manager family for a place
PackageManagerFiles(w) ==
    {[local |-> l, global |-> g, legacy |-> y, place |-> w] :
        l \in {NoFile} \cup {File(LocalDocument(c, Undefined, w[2], pc, Undefined)) :
                    c \in PackageManagerClis("yarn"), pc \in PackageManagerClis("pnpm")},
        g \in {NoFile, File(Garbage)}
              \cup {File(GlobalDocument(c, Undefined)) : c \in PackageManagerClis("npm")},
        y \in {NoFile, File(Stringify(Member("packageManager", JStr("cnpm"))))}}
    \cup
    {[local |-> l, global |-> NoFile, legacy |-> File(y), place |-> w] :
        l \in {NoFile, File(LocalDocument(Undefined, Undefined, Undefined, Undefined,
                                          Undefined))},
        y \in LegacyDocuments}

\* the files of the warnings family for a place
WarningFiles(w) ==
    {[local |-> l, global |-> g, legacy |-> NoFile, place |-> w] :
        l \in {NoFile} \cup {File(LocalDocument(c, Undefined, w[2], pc, Undefined)) :
                    c \in WarningClis, pc \in WarningClis},
        g \in {NoFile} \cup {File(GlobalDocument(c, Undefined)) : c \in WarningClis}}

\* the files of the schematics family for a place
SchematicsFiles(w) ==
    {[local |-> l, global |-> g, legacy |-> NoFile, place |-> w] :
        l \in {NoFile} \cup {File(LocalDocument(Undefined, m, w[2], Undefined, pm)) :
                    m \in SchematicsMembers(2), pm \in SchematicsMembers(3)},
        g \in {NoFile} \cup {File(GlobalDocument(Undefined, m)) :
                    m \in SchematicsMembers(1)}}

SettingsFiles ==
    UNION {PackageManagerFiles(w) \cup WarningFiles(w) \cup SchematicsFiles(w) :
              w \in Places}

SettingsInit ==
    /\ homedir = "/h"
    /\ xdgEnv = ""
    /\ \E f \in SettingsFiles :
          /\ cwd = f.place[1]
          /\ files = [p \in AllPaths |->
                        IF p = LocalPath THEN f.local
                        ELSE IF p = HomeGlobalPath("/h") THEN f.global
                        ELSE IF p = LegacyPath("/h") THEN f.legacy
                        ELSE NoFile]
    /\ cachedWorkspaces = [l \in Levels |-> Undefined]
    /\ inflight = <<>>
    /\ input = NoInput
    /\ ret = NoRet
    /\ hist = InitHist

SettingsNext ==
    \/ getConfiguredPackageManager
    \/ isWarningEnabled("w")
    \/ \E project \in {Undefined, JStr("p2")} : getSchematicDefaults("c", "s", project)

SpecSettings == SettingsInit /\ [][SettingsNext]_vars

(***************************************************************************)
(* SpecSeq: getWorkspace awaited call by call, between calls that change   *)
(* the filesystem.  Spec: the same with getWorkspace calls that overlap.   *)
(***************************************************************************)
SimpleLocal == LocalDocument(Undefined, Undefined, Undefined, Undefined, Undefined)
NpmGlobal == GlobalDocument(Member("packageManager", JStr("npm")), Undefined)

\* the legacy .angular-cli.json files: none, no JSON, no object, nothing to
\* migrate, and settings to migrate
LegacyFiles ==
    {NoFile, File(Garbage), File(Stringify(JArr)),
     File(Stringify(Member("packageManager", JStr("default")))),
     File(Stringify(Member("packageManager", JStr("npm")))),
     File(Stringify(JObj(<<
        <<"defaults", Member("schematics", Member("collection", JStr("c")))>>,
        <<"warnings", Member("versionMismatch", JBool(FALSE))>> >>)))}

\* the files at the start: `dot` is .angular.json, `xdg` the file at the XDG
\* path, `home` the global file in the home directory
FilesOf(local, dot, xdg, home, legacy) ==
    [p \in AllPaths |->
        IF p = HomeGlobalPath("/h") THEN home
        ELSE IF homedir # "" /\ p = xdgConfigHome(homedir) THEN xdg
        ELSE IF p = LegacyPath("/h") THEN legacy
        ELSE IF p = LocalPath THEN local
        ELSE IF p = LocalDotPath THEN dot
        ELSE NoFile]

SeqInit ==
    /\ cachedWorkspaces = [l \in Levels |-> Undefined]
    /\ inflight = <<>>
    /\ input = NoInput
    /\ ret = NoRet
    /\ hist = InitHist
    /\ \/ /\ homedir = "/h"
          /\ xdgEnv \in {"", "/x", "/h"}
          /\ cwd = "/w/a"
          /\ \E local \in {NoFile, File(SimpleLocal)},
                xdg \in {NoFile, File(NpmGlobal), File(Stringify(JArr))},
                home \in {NoFile, File(NpmGlobal), File(Garbage),
                          File(<<Tok("bom")>> \o NpmGlobal)},
                legacy \in LegacyFiles :
                files = FilesOf(local, NoFile, xdg, home, legacy)
       \/ /\ homedir \in {"", "/h"}
          /\ xdgEnv = ""
          /\ cwd \in {"/w/a", "/x"}
          /\ \E local \in {NoFile, File(SimpleLocal), File(Garbage)},
                dot \in {NoFile, File(SimpleLocal)},
                legacy \in {NoFile, File(Stringify(Member("packageManager", JStr("npm"))))} :
                files = FilesOf(local, dot, NoFile, NoFile, legacy)

SeqNext ==
    \/ \E level \in Levels : GetWorkspaceAwaited(level)
    \/ createGlobalSettings
    \/ \E level \in Levels : getWorkspaceRaw(level)
    \/ migrateLegacyGlobalConfig

SpecSeq == SeqInit /\ [][SeqNext]_vars

Init ==
    /\ homedir = "/h"
    /\ xdgEnv = ""
    /\ cwd = "/w/a"
    /\ \E local \in {NoFile, File(SimpleLocal), File(Garbage)},
          home \in {NoFile, File(NpmGlobal), File(Garbage)},
          legacy \in {NoFile, File(Stringify(Member("packageManager", JStr("npm"))))} :
          files = FilesOf(local, NoFile, NoFile, home, legacy)
    /\ cachedWorkspaces = [l \in Levels |-> Undefined]
    /\ inflight = <<>>
    /\ input = NoInput
    /\ ret = NoRet
    /\ hist = InitHist

Next ==
    \/ \E level \in Levels : GetWorkspaceCached(level)
    \/ \E level \in Levels : GetWorkspaceNotFound(level)
    \/ \E level \in Levels : GetWorkspaceRead(level)
    \/ \E i \in 1..Len(inflight) : GetWorkspaceResume(i)
    \/ createGlobalSettings
    \/ \E level \in Levels : getWorkspaceRaw(level)
    \/ migrateLegacyGlobalConfig

Spec == Init /\ [][Next]_vars

(***************************************************************************)
(* Claims about getProjectByPath.                                          *)
(***************************************************************************)
\* the declared projects whose root contains the location
Containing(workspace, location) ==
    {i \in 1..Len(workspace.projects) :
        isInside(workspace, workspace.projects[i].root, location)}

RootLen(workspace, i) == StrLen(workspace.projects[i].root)

\* two distinct projects containing the location declare the identical root
IdenticalRootsAmong(workspace, location) ==
    \E i, j \in Containing(workspace, location) :
        i # j /\ workspace.projects[i].root = workspace.projects[j].root

\* the containing projects whose root is as long as any
Deepest(workspace, location) ==
    {i \in Containing(workspace, location) :
        \A j \in Containing(workspace, location) :
            RootLen(workspace, j) <= RootLen(workspace, i)}

ByPathReturned == ret.op = "getProjectByPath"

\* C1 as stated: when one containing project has a root strictly longer than
\* every other containing project's, getProjectByPath returns its name.
C1_DeepestWins_Original ==
    ByPathReturned =>
        \A i \in Containing(input.workspace, input.location) :
            Deepest(input.workspace, input.location) = {i}
                => ret.result = JStr(input.workspace.projects[i].name)

\* C1 amended: when one containing project has a root strictly longer than
\* every other containing project's and no two containing projects declare the
\* identical root string, getProjectByPath returns the deepest project's name,
\* whatever the declaration order.
C1_DeepestWins ==
    ByPathReturned =>
        \A i \in Containing(input.workspace, input.location) :
            (/\ Deepest(input.workspace, input.location) = {i}
             /\ ~IdenticalRootsAmong(input.workspace, input.location))
                => ret.result = JStr(input.workspace.projects[i].name)

\* C1 witness: roots `a` then `a/b` (and the reverse order exists too), target
\* under a/b, resolved to the a/b project declared second.
C1_Witness ==
    /\ ByPathReturned
    /\ Len(input.workspace.projects) = 2
    /\ input.workspace.projects[1].root = "a"
    /\ input.workspace.projects[2].root = "a/b"
    /\ input.location = "/w/a/b"
    /\ ret.result = JStr("p2")

\* C2 as stated: when the longest root length among the containing projects is
\* shared by two or more projects, getProjectByPath returns null.
C2_LengthTies_Original ==
    ByPathReturned =>
        (Cardinality(Deepest(input.workspace, input.location)) >= 2
            => ret.result = JNull)

\* C2 amended: when the longest root length among the containing projects is
\* shared by two or more projects, getProjectByPath returns null if two
\* containing projects declare the identical root string, and otherwise (the
\* tied roots are different strings of the same length) returns the name of the
\* first declared of the tied projects.
C2_LengthTies ==
    ByPathReturned =>
        LET tied == Deepest(input.workspace, input.location)
            first == CHOOSE i \in tied : \A j \in tied : i <= j
        IN Cardinality(tied) >= 2 =>
            IF IdenticalRootsAmong(input.workspace, input.location)
            THEN ret.result = JNull
            ELSE ret.result = JStr(input.workspace.projects[first].name)

\* C2 witness: the roots `./a` and `a/.` are different strings of length 3 that
\* both contain /w/a; the first declared project is returned.
C2_Witness ==
    /\ ByPathReturned
    /\ Len(input.workspace.projects) = 2
    /\ input.workspace.projects[1].root = "a/."
    /\ input.workspace.projects[2].root = "./a"
    /\ input.location = "/w/a"
    /\ ret.result = JStr("p1")

\* C3: when two projects declare the identical root string and the location is
\* inside that root, getProjectByPath returns null, in either declaration order.
C3_IdenticalRoots ==
    ByPathReturned =>
        ((\E i, j \in Containing(input.workspace, input.location) :
              i # j /\ input.workspace.projects[i].root = input.workspace.projects[j].root)
            => ret.result = JNull)

\* C3 witness: two projects with root `a`, a third deeper one, target in a/b.
C3_Witness ==
    /\ ByPathReturned
    /\ Len(input.workspace.projects) = 3
    /\ input.workspace.projects[1].root = "a"
    /\ input.workspace.projects[2].root = "a/b"
    /\ input.workspace.projects[3].root = "a"
    /\ input.location = "/w/a/b"
    /\ ret.result = JNull

(***************************************************************************)
(* Claims about the settings cascade.                                      *)
(***************************************************************************)
LocalWorkspace == cachedWorkspaces["local"]
GlobalWorkspace == cachedWorkspaces["global"]

\* the extensions of a scope: the project `project` names (when the local
\* workspace declares it), the local workspace, or the global document
ScopeExtensions(scope, project) ==
    CASE scope = "global" ->
            IF GlobalWorkspace.t = "workspace" THEN GlobalWorkspace.extensions
            ELSE Undefined
      [] scope = "workspace" ->
            IF LocalWorkspace.t = "workspace" THEN LocalWorkspace.extensions
            ELSE Undefined
      [] scope = "project" ->
            IF /\ LocalWorkspace.t = "workspace"
               /\ project.t = "string"
               /\ \E i \in 1..Len(LocalWorkspace.projects) :
                      LocalWorkspace.projects[i].name = project.v
            THEN LocalWorkspace.projects[
                     CHOOSE i \in 1..Len(LocalWorkspace.projects) :
                         LocalWorkspace.projects[i].name = project.v].extensions
            ELSE Undefined

\* the project getProjectByCwd selects in the local workspace
CurrentProject ==
    IF LocalWorkspace.t = "workspace" THEN getProjectByCwd(LocalWorkspace) ELSE JNull

\* cli.packageManager of a scope
PackageManagerAt(scope) ==
    Get(Get(ScopeExtensions(scope, CurrentProject), "cli"), "packageManager")

\* no local and no global workspace document exists
NoWorkspaceAtAll == LocalWorkspace = JNull /\ GlobalWorkspace = JNull

PackageManagerReturned == ret.op = "getConfiguredPackageManager" /\ ~ret.threw

\* C4 as stated: the result is the cli.packageManager string of the project if
\* defined, else the workspace's, else the global document's; the legacy
\* reader's value only when no workspace document exists at all; else null.
C4_PackageManagerCascade_Original ==
    PackageManagerReturned =>
        ret.result =
            IF IsString(PackageManagerAt("project")) THEN PackageManagerAt("project")
            ELSE IF IsString(PackageManagerAt("workspace"))
            THEN PackageManagerAt("workspace")
            ELSE IF IsString(PackageManagerAt("global")) THEN PackageManagerAt("global")
            ELSE IF NoWorkspaceAtAll THEN getLegacyPackageManager.value
            ELSE JNull

\* C4 amended: the result is the first non-empty cli.packageManager string in
\* the order project (as getProjectByCwd selects it), local workspace, global
\* document (an empty string counts as not defined); the legacy reader's value
\* only when neither a local nor a global workspace document exists; null when
\* nothing defines a value.
C4_PackageManagerCascade ==
    PackageManagerReturned =>
        ret.result =
            IF IsNonEmptyString(PackageManagerAt("project"))
            THEN PackageManagerAt("project")
            ELSE IF IsNonEmptyString(PackageManagerAt("workspace"))
            THEN PackageManagerAt("workspace")
            ELSE IF IsNonEmptyString(PackageManagerAt("global"))
            THEN PackageManagerAt("global")
            ELSE IF NoWorkspaceAtAll THEN getLegacyPackageManager.value
            ELSE JNull

\* C4 witness: the project's cli.packageManager is empty, the workspace gives
\* none, the global document names npm, and a legacy file naming cnpm exists:
\* the global value is returned and the legacy file is not consulted.
C4_Witness ==
    /\ PackageManagerReturned
    /\ PackageManagerAt("project") = JStr("")
    /\ PackageManagerAt("workspace") = Undefined
    /\ PackageManagerAt("global") = JStr("npm")
    /\ existsSync(LegacyPath(homedir))
    /\ ret.result = JStr("npm")

\* the project getSchematicDefaults uses: its argument, else the current one
SchematicsProject == IF Truthy(ret.project) THEN ret.project ELSE CurrentProject

\* what each scope contributes for c:s, widest scope first, and within a scope
\* the qualified entry before the nested one
SchematicEntries ==
    LET at(scope) == Get(ScopeExtensions(scope, SchematicsProject), "schematics")
        entries(scope) == <<Get(at(scope), "c:s"), Get(Get(at(scope), "c"), "s")>>
    IN entries("global") \o entries("workspace") \o entries("project")

OptionKeys == {"x", "y", "0"}

\* the entries that give the option `key`
Giving(key) ==
    {i \in 1..Len(SchematicEntries) :
        \E m \in 1..Len(OwnProperties(SchematicEntries[i])) :
            OwnProperties(SchematicEntries[i])[m][1] = key}

PropertyOf(entry, key) ==
    LET props == OwnProperties(entry)
    IN props[CHOOSE m \in 1..Len(props) : props[m][1] = key][2]

SchematicsReturned == ret.op = "getSchematicDefaults" /\ ~ret.threw

\* C5: the result of getSchematicDefaults is an object (never null) that has
\* exactly the option keys some scope gives, each with the value of the
\* narrowest scope giving it (project over workspace over global); it is the
\* empty object when no scope gives options.
C5_SchematicDefaultsMerge ==
    SchematicsReturned =>
        /\ isJsonObject(ret.result)
        /\ \A i \in 1..Len(ret.result.v) : ret.result.v[i][1] \in OptionKeys
        /\ \A key \in OptionKeys :
              IF Giving(key) = {} THEN ~HasKey(ret.result, key)
              ELSE LET last == CHOOSE i \in Giving(key) : \A j \in Giving(key) : j <= i
                   IN Get(ret.result, key) = PropertyOf(SchematicEntries[last], key)

\* C5 witness: global {x:1}, workspace {y:2}, project {x:3} give {x:3, y:2}.
C5_Witness ==
    /\ SchematicsReturned
    /\ SchematicEntries = <<Member("x", JNum(1)), Undefined,
                            Member("y", JNum(2)), Undefined,
                            Member("x", JNum(3)), Undefined>>
    /\ ret.result = JObj(<< <<"x", JNum(3)>>, <<"y", JNum(2)>> >>)

\* cli.warnings.w of a scope
WarningAt(scope) ==
    Get(Get(Get(ScopeExtensions(scope, CurrentProject), "cli"), "warnings"), "w")

WarningReturned == ret.op = "isWarningEnabled" /\ ~ret.threw

\* C9: isWarningEnabled returns the boolean cli.warnings.<name> of the
\* narrowest scope that defines it as a boolean, in the order project,
\* workspace, global; a value that is no boolean counts as undefined; the
\* result is true when no scope defines the key.
C9_WarningsFailOpen ==
    WarningReturned =>
        ret.result =
            IF IsBoolean(WarningAt("project")) THEN WarningAt("project")
            ELSE IF IsBoolean(WarningAt("workspace")) THEN WarningAt("workspace")
            ELSE IF IsBoolean(WarningAt("global")) THEN WarningAt("global")
            ELSE JBool(TRUE)

\* C9 witness: a local and a global document exist, the project's value is no
\* boolean and no scope defines the key as a boolean: the warning is enabled.
C9_Witness ==
    /\ WarningReturned
    /\ LocalWorkspace.t = "workspace"
    /\ GlobalWorkspace.t = "workspace"
    /\ WarningAt("project") = JStr("no")
    /\ WarningAt("workspace") = Undefined
    /\ WarningAt("global") = Undefined
    /\ ret.result = JBool(TRUE)

(***************************************************************************)
(* Claims about the scope cache, the global settings file and the legacy   *)
(* migration.                                                              *)
(***************************************************************************)
\* C6: once getWorkspace has resolved a scope (to a workspace or to null), the
\* cache entry never changes and every later getWorkspace call for the scope
\* returns that entry without reading the disk, whatever createGlobalSettings,
\* getWorkspaceRaw and migrateLegacyGlobalConfig did to the files in between
\* (getWorkspace calls awaited one at a time).
C6_FirstLookupWins ==
    [][\A level \in Levels :
          cachedWorkspaces[level] # Undefined =>
              /\ cachedWorkspaces'[level] = cachedWorkspaces[level]
              /\ (ret'.op = "getWorkspace" /\ ret'.level = level) =>
                    /\ ~ret'.threw
                    /\ ~ret'.read
                    /\ ret'.result = cachedWorkspaces[level]]_vars

\* C6 witness: the global scope was resolved to null, the global file was
\* created afterwards, and getWorkspace('global') still answers null from the
\* cache.
C6_Witness ==
    /\ ret.op = "getWorkspace"
    /\ ret.level = "global"
    /\ ~ret.threw
    /\ ~ret.read
    /\ ret.result = JNull
    /\ existsSync(HomeGlobalPath(homedir))
    /\ globalFilePath = HomeGlobalPath(homedir)

\* getWorkspaceRaw('global') returns right after createGlobalSettings returned
RawAfterCreate ==
    /\ ret.op = "createGlobalSettings"
    /\ ~ret.threw
    /\ ret'.op = "getWorkspaceRaw"
    /\ ret'.level = "global"

\* the document just written comes back, at the path it was written to
RoundTrip ==
    /\ ~ret'.threw
    /\ ret'.path = ret.result
    /\ ret'.ast = DefaultGlobalSettings
    /\ Get(ret'.ast, "version") = JNum(1)

\* C7 as stated: with a home directory, in every filesystem state,
\* createGlobalSettings followed by getWorkspaceRaw('global') returns the
\* document just written ({version: 1}) at the path createGlobalSettings
\* returned.
C7_GlobalRoundTrip_Original == [][RawAfterCreate => RoundTrip]_vars

\* C7 amended: with a home directory and no file at the XDG configuration path
\* (or with the XDG path being the home path itself), createGlobalSettings
\* followed by getWorkspaceRaw('global') returns the document just written
\* ({version: 1}) at the path createGlobalSettings returned.
C7_GlobalRoundTrip ==
    [][(/\ RawAfterCreate
        /\ \/ ~existsSync(xdgConfigHome(homedir))
           \/ xdgConfigHome(homedir) = HomeGlobalPath(homedir))
          => RoundTrip]_vars

\* C7 witness: getWorkspaceRaw('global'), called right after
\* createGlobalSettings with no file at the XDG path, returned {version: 1}
\* from the home path.
C7_Witness ==
    /\ ret.op = "getWorkspaceRaw"
    /\ ret.level = "global"
    /\ ret.after = "createGlobalSettings"
    /\ ~ret.threw
    /\ ret.path = HomeGlobalPath(homedir)
    /\ ret.ast = DefaultGlobalSettings
    /\ ~existsSync(xdgConfigHome(homedir))

\* the legacy file exists and is bad: it is no JSON, or no JSON object
LegacyIsBad ==
    /\ homedir # ""
    /\ existsSync(LegacyPath(homedir))
    /\ \/ ~parseJson(files[LegacyPath(homedir)].data).ok
       \/ ~isJsonObject(parseJson(files[LegacyPath(homedir)].data).value)

\* C8: when the legacy file exists but is bad (no JSON, or no JSON object),
\* migrateLegacyGlobalConfig returns false, does not throw and writes nothing.
C8_LegacyDegrades ==
    (ret.op = "migrateLegacyGlobalConfig" /\ LegacyIsBad) =>
        /\ ~ret.threw
        /\ ret.result = FALSE
        /\ ~ret.wrote

\* C10 as stated: in every interleaving of getWorkspace calls the cache entry
\* of a scope is written at most once.
C10_PopulatedOnce_Original == \A level \in Levels : hist.writes[level] <= 1

\* C10 amended: as long as no getWorkspace call for a scope starts while
\* another resolution of that scope is in flight, the cache entry of the scope
\* is written at most once and every caller receives the same result; calls
\* that overlap before the first resolution completes each write the entry.
C10_PopulatedOnce ==
    \A level \in Levels :
        ~hist.overlapped[level] =>
            /\ hist.writes[level] <= 1
            /\ Cardinality(hist.results[level]) <= 1

\* C10 witness: the local scope was resolved once, without overlap, a later
\* caller got the cached workspace, and a global resolution is in flight.
C10_Witness ==
    /\ ret.op = "getWorkspace"
    /\ ret.level = "local"
    /\ "read" \in DOMAIN ret
    /\ ~ret.read
    /\ ret.result.t = "workspace"
    /\ hist.writes["local"] = 1
    /\ ~hist.overlapped["local"]
    /\ Len(inflight) > 0

====
